---- MODULE Spec2Model ----
(***************************************************************************)
(* Model of the maintenance-bot coordination layer:                        *)
(*   app/services/google_api.py   GoogleAPIService (lock, retry, stores)   *)
(*   app/handlers/request.py      get_photo / skip_photo creation flows    *)
(*   app/services/notification_service.py  send_new_request_notification   *)
(*                                                                         *)
(* Every handler invocation is a task of the asyncio event loop.  A task   *)
(* runs one handler at a time; inside a service method each remote call    *)
(* to the sheet is one step, taken while the task holds self.lock.         *)
(* A remote call may fail: "transient" stands for a RequestException or   *)
(* an APIError with status >= 500 (retried by google_api_retry),           *)
(* "terminal" for any other APIError.                                      *)
(***************************************************************************)
EXTENDS Integers, Sequences, FiniteSets, TLC

\* ---------------------------------------------------------------- bounds
\* Number of handler invocations over one behaviour.
MaxCalls == 2
\* Number of remote calls that fail over one behaviour.
MaxFaults == 2

\* ------------------------------------------------------ program constants
\* stop_after_attempt(5)
MaxAttempts == 5

Tasks == {"t1", "t2"}
NoTask == "none"
\* Telegram ids of the technicians pressing the buttons.
Actors == {7, 9}
\* Telegram ids handled by the user operations.
UserIds == {42}
\* Outcomes of a service call: a returned value ("ok" for None), "fault" for
\* a store fault raised to the caller (APIError, RequestException or
\* tenacity's RetryError), "error" for a TypeError/ValueError.
Results == {"none", "ok", "true", "false", "fault", "error"}
\* The request identities (uuid4 values) a behaviour draws from.
UUIDs == {1}

\* An empty cell of the sheet.
Empty == ""

VARIABLES
    lock,       \* GoogleAPIService.lock: the task holding it, or NoTask
    requests,   \* the "requests" worksheet below its header: a sequence of rows
    users,      \* the "users" worksheet below its header: a sequence of rows
    pc,         \* pc[t]: where task t stands
    op,         \* op[t]: the handler and service call task t runs (or ran last)
    result,     \* result[t]: how the last service call of task t ended
    notified,   \* notified[u]: outcome of the creation notification for uuid u
    drawn,      \* the uuids given to a MaintenanceRequest so far
    calls,      \* handler invocations so far
    faults,     \* failed remote calls so far
    cache,      \* UserService._user_cache: the snapshot, or NoSnapshot
    stamp,      \* UserService._cache_timestamp
    now,        \* time.time()
    objs,       \* list objects built by the fetches of get_all_users so far
    last,       \* what the last get_all_users call returned
    ucall,      \* the last mutation made through UserService
    gate,       \* the last run of a require_role wrapper
    mail        \* the messages a sending handler hands to bot.send_message

\* The state of the UserService instance and of its callers.
cvars == <<cache, stamp, now, objs, last, ucall>>

\* The state of the handlers around the services.
hvars == <<gate, mail>>

vars == <<lock, requests, users, pc, op, result, notified, drawn, calls, faults,
          cache, stamp, now, objs, last, ucall, gate, mail>>

\* ------------------------------------------------------------------ rows
\* Columns 1, 2, 5, 9, 10, 11, 12 of a requests row (the other columns are
\* written once by the append and never read by the service).
NewRow(uuid, status) ==
    [id |-> uuid, status |-> status, photo |-> Empty, assignee |-> Empty,
     aname |-> Empty, accepted |-> Empty, completed |-> Empty]

NoRow == [id |-> 0, status |-> "absent", photo |-> Empty, assignee |-> Empty,
          aname |-> Empty, accepted |-> Empty, completed |-> Empty]

\* worksheet.find(value, in_column=1): the first matching row, 0 for None.
FindRow(rows, uuid) ==
    IF \E i \in DOMAIN rows : rows[i].id = uuid
    THEN CHOOSE i \in DOMAIN rows :
            /\ rows[i].id = uuid
            /\ \A j \in DOMAIN rows : rows[j].id = uuid => i <= j
    ELSE 0

\* worksheet.update_cell(row, col, value)
UpdateCell(rows, i, col, v) ==
    IF i \in DOMAIN rows THEN [rows EXCEPT ![i][col] = v] ELSE rows

\* worksheet.delete_rows(row)
DeleteRows(rows, i) ==
    IF i \in DOMAIN rows
    THEN [k \in 1..(Len(rows) - 1) |-> IF k < i THEN rows[k] ELSE rows[k + 1]]
    ELSE rows

\* worksheet.cell(row, col).value
RowAt(rows, i) == IF i \in DOMAIN rows THEN rows[i] ELSE NoRow

\* What a reader of the sheet sees for an identity.
StatusOf(rows, uuid) == RowAt(rows, FindRow(rows, uuid)).status

\* ----------------------------------------------------------------- calls
\* op[t].  flow: the handler; name: the service method; uuid, actor, uid,
\* uname, status: its arguments; attempt: tenacity's attempt_number; inner:
\* attempt_number of the nested get_users_worksheet; row: cell.row.
\* History of the call, read by the properties only: atCall (status of the
\* row when the call was made), seenStatus and seenAssignee (the cells the
\* guard read), wrote (cells written), faulted (fault met by the call),
\* failed (step of the creation flow that failed), rolled (rollback issued).
NoOp ==
    [flow |-> "none", name |-> "none", uuid |-> 0, actor |-> 0, uid |-> 0,
     uname |-> Empty, status |-> Empty, attempt |-> 0, inner |-> 0, row |-> 0,
     atCall |-> "none", seenStatus |-> "none", seenAssignee |-> "none",
     wrote |-> 0, faulted |-> "none", failed |-> "none", rolled |-> FALSE]

\* A decorated service method is entered: attempt 1 of google_api_retry.
StartCall(o, name) ==
    [o EXCEPT !.name = name, !.attempt = 1, !.inner = 0, !.row = 0,
              !.seenStatus = "none", !.seenAssignee = "none",
              !.wrote = 0, !.faulted = "none"]

\* The cell written for a Telegram id, and int() of a cell: -1 stands for the
\* TypeError/ValueError int() raises on an empty cell.
CellOf(a) == IF a = 7 THEN "7" ELSE IF a = 9 THEN "9" ELSE "42"
\* db_user.name of a technician.
NameOf(a) == IF a = 7 THEN "n7" ELSE "n9"
IntOf(cell) ==
    IF \E a \in Actors \cup UserIds : CellOf(a) = cell
    THEN CHOOSE a \in Actors \cup UserIds : CellOf(a) = cell
    ELSE -1

\* The requests sheet when the tasks start: empty, or holding a request that
\* earlier handlers created (skip_photo) and possibly accepted (accept_request
\* by user 7).
InitialRequests ==
    {<<>>,
     <<NewRow(1, "new")>>,
     <<[NewRow(1, "in_progress") EXCEPT !.assignee = CellOf(7),
                                        !.aname = NameOf(7), !.accepted = "t"]>>}

\* The users sheet when the tasks start: empty, or one row added earlier.
InitialUsers == {<<>>, <<[id |-> 42, name |-> "User_42"]>>}

IdsOf(rows) == {rows[i].id : i \in DOMAIN rows}

InitTasks ==
    /\ lock = NoTask
    /\ pc = [t \in Tasks |-> "idle"]
    /\ op = [t \in Tasks |-> NoOp]
    /\ result = [t \in Tasks |-> "none"]
    /\ notified = [u \in UUIDs |-> IF u \in IdsOf(requests) THEN "sent" ELSE "none"]
    /\ drawn = IdsOf(requests)
    /\ calls = 0
    /\ faults = 0

\* None: no snapshot is cached.
NoSnapshot == [obj |-> 0, rows |-> <<>>]

\* UserService.__init__: no cache, timestamp 0.0; nothing was called yet.
InitUserService ==
    /\ cache = NoSnapshot
    /\ stamp = 0
    /\ now = 0
    /\ objs = 0
    /\ last = [n |-> 0, how |-> "none", obj |-> 0, rows |-> <<>>]
    /\ ucall = [n |-> 0, name |-> "none", id |-> 0, ret |-> "none", at |-> 0]

\* No wrapper has run and no handler has sent anything.
InitHandlers ==
    /\ gate = [n |-> 0, user |-> 0, found |-> "none", kind |-> "none",
               roles |-> {}, looked |-> FALSE, invoked |-> FALSE,
               stored |-> "none", denied |-> "none"]
    /\ mail = [job |-> "none", len |-> 0, i |-> 0, x |-> 0, log |-> <<>>,
               done |-> FALSE]

Init ==
    /\ requests \in InitialRequests
    /\ users \in InitialUsers
    /\ InitTasks
    /\ InitUserService
    /\ InitHandlers

\* ------------------------------------------------- handlers: control flow
\* The except branch of get_photo: the rollback delete is awaited.
Rollback(o) ==
    [pc |-> "acquire",
     op |-> StartCall([o EXCEPT !.rolled = TRUE], "delete_request_by_uuid")]

\* get_photo after create_request_row returned or raised.
AfterCreate(o, res) ==
    IF res = "ok" THEN [pc |-> "upload", op |-> o] ELSE Rollback(o)

\* get_photo after upload_photo_to_drive: it returns the link, or None when
\* anything failed, and None raises RuntimeError inside the try.
AfterUpload(o, url) ==
    IF url # Empty
    THEN [pc |-> "acquire", op |-> StartCall(o, "update_request_after_upload")]
    ELSE Rollback(o)

\* The commit step failing without the except branch being taken.
AfterCommitNoRollback(o, res) ==
    IF res = "ok" THEN [pc |-> "notify", op |-> o] ELSE [pc |-> "idle", op |-> o]

\* get_photo after update_request_after_upload returned or raised.
AfterCommit(o, res) ==
    IF res = "ok" THEN [pc |-> "notify", op |-> o] ELSE Rollback(o)

\* send_message's failure escaping send_new_request_notification into the
\* except branch of the handler.
AfterNotifyRaises(o, sent) ==
    IF sent THEN [pc |-> "reply", op |-> o] ELSE Rollback(o)

\* send_new_request_notification catches the failure of send_message and
\* returns: the handler goes on to its success reply either way.
AfterNotify(o, sent) == [pc |-> "reply", op |-> o]

\* message.reply_text(SUCCESS_MESSAGE) is inside the try of both handlers:
\* get_photo rolls back when it raises, skip_photo only replies.
AfterReply(o, ok) ==
    IF ok THEN [pc |-> "idle", op |-> o]
    ELSE IF o.flow = "get_photo" THEN Rollback(o)
    ELSE [pc |-> "idle", op |-> o]

\* skip_photo taking the rollback of get_photo when the append raised.
AfterCreateNoPhotoRollback(o, res) ==
    IF res = "ok" THEN [pc |-> "notify", op |-> o] ELSE Rollback(o)

\* skip_photo after create_request_row returned or raised.
AfterCreateNoPhoto(o, res) ==
    IF res = "ok" THEN [pc |-> "notify", op |-> o]
    ELSE [pc |-> "idle", op |-> o]

\* Where the caller of a service method goes on once the method ended with
\* res.  The result of the rollback delete is not looked at.
After(o, res) ==
    IF o.flow = "get_photo" /\ o.name = "create_request_row"
        THEN AfterCreate(o, res)
    ELSE IF o.flow = "get_photo" /\ o.name = "update_request_after_upload"
        THEN AfterCommit(o, res)
    ELSE IF o.flow = "skip_photo" /\ o.name = "create_request_row"
        THEN AfterCreateNoPhoto(o, res)
    ELSE [pc |-> "idle", op |-> o]

\* Task t moves to step s (a record with pc and op); res is recorded when a
\* service call ended.
Goto(t, s, res) ==
    /\ pc' = [pc EXCEPT ![t] = s.pc]
    /\ op' = [op EXCEPT ![t] = s.op]
    /\ result' = [result EXCEPT ![t] = res]

\* The step of the creation flow a service method is.
StepOf(name) ==
    CASE name = "create_request_row" -> "create"
      [] name = "update_request_after_upload" -> "commit"
      [] name = "delete_request_by_uuid" -> "rollback"
      [] OTHER -> "call"

\* A service method ending without leaving "async with self.lock".
ReturnHoldingLock(t, o, res) ==
    /\ lock' = lock
    /\ Goto(t, After(IF res \in {"fault", "error"}
                     THEN [o EXCEPT !.failed = StepOf(o.name)] ELSE o, res), res)

\* A service method of task t ends with res: the lock is released by the
\* exit of "async with self.lock".  A raised method is noted in failed.
Return(t, o, res) ==
    /\ lock' = IF lock = t THEN NoTask ELSE lock
    /\ Goto(t, After(IF res \in {"fault", "error"}
                     THEN [o EXCEPT !.failed = StepOf(o.name)] ELSE o, res), res)

\* Task t goes on inside its service method, keeping the lock.
Step(t, o, next) ==
    /\ pc' = [pc EXCEPT ![t] = next]
    /\ op' = [op EXCEPT ![t] = o]
    /\ UNCHANGED <<lock, result>>

\* ------------------------------------------------------ handler invocations
Idle(t) == pc[t] = "idle" /\ calls < MaxCalls

\* get_photo: request.status = "creating", then create_request_row.
CallGetPhoto(t) ==
    /\ Idle(t)
    /\ calls' = calls + 1
    /\ \E u \in UUIDs \ drawn :
        /\ drawn' = drawn \cup {u}
        /\ Goto(t, [pc |-> "acquire",
                    op |-> StartCall([NoOp EXCEPT !.flow = "get_photo", !.uuid = u,
                                                  !.status = "creating"],
                                     "create_request_row")], "none")
    /\ UNCHANGED <<lock, requests, users, notified, faults>>
    /\ UNCHANGED <<cvars, hvars>>

\* skip_photo: request.status = "new", then create_request_row.
CallSkipPhoto(t) ==
    /\ Idle(t)
    /\ calls' = calls + 1
    /\ \E u \in UUIDs \ drawn :
        /\ drawn' = drawn \cup {u}
        /\ Goto(t, [pc |-> "acquire",
                    op |-> StartCall([NoOp EXCEPT !.flow = "skip_photo", !.uuid = u,
                                                  !.status = "new"],
                                     "create_request_row")], "none")
    /\ UNCHANGED <<lock, requests, users, notified, faults>>
    /\ UNCHANGED <<cvars, hvars>>

\* request_callback_handler, action accept_req.
CallAccept(t) ==
    /\ Idle(t)
    /\ \E u \in UUIDs, a \in Actors :
        Goto(t, [pc |-> "acquire",
                 op |-> StartCall([NoOp EXCEPT !.flow = "callback",
                                               !.uuid = u, !.actor = a,
                                               !.atCall = StatusOf(requests, u)],
                                  "accept_request")], "none")
    /\ calls' = calls + 1
    /\ UNCHANGED <<lock, requests, users, notified, drawn, faults>>
    /\ UNCHANGED <<cvars, hvars>>

\* request_callback_handler, action complete_req.
CallComplete(t) ==
    /\ Idle(t)
    /\ \E u \in UUIDs, a \in Actors :
        Goto(t, [pc |-> "acquire",
                 op |-> StartCall([NoOp EXCEPT !.flow = "callback",
                                               !.uuid = u, !.actor = a,
                                               !.atCall = StatusOf(requests, u)],
                                  "complete_request")], "none")
    /\ calls' = calls + 1
    /\ UNCHANGED <<lock, requests, users, notified, drawn, faults>>
    /\ UNCHANGED <<cvars, hvars>>

\* A call of GoogleAPIService.add_user (awaited).
CallAddUser(t) ==
    /\ Idle(t)
    /\ \E id \in UserIds :
        Goto(t, [pc |-> "acquire",
                 op |-> StartCall([NoOp EXCEPT !.flow = "direct", !.uid = id,
                                               !.uname = "User_42"], "add_user")],
             "none")
    /\ calls' = calls + 1
    /\ UNCHANGED <<lock, requests, users, notified, drawn, faults>>
    /\ UNCHANGED <<cvars, hvars>>

\* A call of GoogleAPIService.delete_user (awaited).
CallDeleteUser(t) ==
    /\ Idle(t)
    /\ \E id \in UserIds :
        Goto(t, [pc |-> "acquire",
                 op |-> StartCall([NoOp EXCEPT !.flow = "direct", !.uid = id],
                                  "delete_user")], "none")
    /\ calls' = calls + 1
    /\ UNCHANGED <<lock, requests, users, notified, drawn, faults>>
    /\ UNCHANGED <<cvars, hvars>>

\* A call of GoogleAPIService.update_user_name (awaited).
CallUpdateUserName(t) ==
    /\ Idle(t)
    /\ \E id \in UserIds :
        Goto(t, [pc |-> "acquire",
                 op |-> StartCall([NoOp EXCEPT !.flow = "direct", !.uid = id,
                                               !.uname = "n42"], "update_user_name")],
             "none")
    /\ calls' = calls + 1
    /\ UNCHANGED <<lock, requests, users, notified, drawn, faults>>
    /\ UNCHANGED <<cvars, hvars>>

\* ------------------------------------------------------- lock and retry
\* The sheet a method works on.
StoreOf(name) ==
    IF name \in {"add_user", "delete_user", "update_user_name"}
    THEN "users" ELSE "requests"

\* One lock per sheet instead of the one lock of the service.
CanEnterPerStore(t) ==
    IF lock = NoTask THEN TRUE
    ELSE StoreOf(op[lock].name) # StoreOf(op[t].name)

\* "async with self.lock" lets task t in: asyncio.Lock is free.
CanEnter(t) == lock = NoTask

\* The first remote call inside "async with self.lock" of each method.
FirstStep(name) ==
    CASE name = "create_request_row" -> "append"
      [] name = "update_request_after_upload" -> "u_find"
      [] name = "delete_request_by_uuid" -> "d_find"
      [] name = "accept_request" -> "a_read"
      [] name = "complete_request" -> "c_read"
      [] OTHER -> "ws"

\* The steps taken between the entry and the exit of "async with self.lock".
LockedPcs ==
    {"append", "u_find", "u_w2", "u_w5", "d_find", "a_read", "a_w2", "a_w9",
     "a_w10", "a_w11", "c_read", "c_w2", "c_w12", "ws", "usr_act"}

\* The steps whose remote call google_api_retry sees fail ("ws" is retried by
\* the nested get_users_worksheet first).
FaultPcs == LockedPcs \ {"ws"}

\* async with self.lock: the task waits until the lock is free.
Acquire(t) ==
    /\ pc[t] = "acquire"
    /\ CanEnter(t)
    /\ lock' = t
    /\ pc' = [pc EXCEPT ![t] = FirstStep(op[t].name)]
    /\ op' = [op EXCEPT ![t].inner = 0]
    /\ UNCHANGED <<requests, users, result, notified, drawn, calls, faults>>
    /\ UNCHANGED <<cvars, hvars>>

\* The except clause of the method: delete_request_by_uuid returns False,
\* every other method re-raises.
Swallows(name) == name = "delete_request_by_uuid"

\* google_api_retry without stop_after_attempt.
RetriesForever(kind, attempt) == kind = "transient"

\* google_api_retry retrying whatever is raised.
RetriesAll(kind, attempt) == attempt < MaxAttempts

\* google_api_retry: retry_if_exception_type(RequestException) |
\* retry_if_exception(is_retryable_gspread_error), stop_after_attempt(5).
Retries(kind, attempt) == kind = "transient" /\ attempt < MaxAttempts

\* The backoff taken inside "async with self.lock".
RaiseHoldingLock(t, o, kind) ==
    LET o2 == [o EXCEPT !.faulted = kind] IN
    IF Swallows(o.name) THEN Return(t, o2, "false")
    ELSE IF Retries(kind, o.attempt)
    THEN /\ lock' = lock
         /\ pc' = [pc EXCEPT ![t] = "sleep"]
         /\ op' = [op EXCEPT ![t] = o2]
         /\ UNCHANGED result
    ELSE Return(t, o2, "fault")

\* A remote call of task t raised inside the lock: the lock is released,
\* then the method returns False, sleeps before its next attempt, or raises.
Raise(t, o, kind) ==
    LET o2 == [o EXCEPT !.faulted = kind] IN
    IF Swallows(o.name) THEN Return(t, o2, "false")
    ELSE IF Retries(kind, o.attempt)
    THEN /\ lock' = IF lock = t THEN NoTask ELSE lock
         /\ pc' = [pc EXCEPT ![t] = "sleep"]
         /\ op' = [op EXCEPT ![t] = o2]
         /\ UNCHANGED result
    ELSE Return(t, o2, "fault")

\* Any remote call made under the lock fails before it is applied.
Fault(t) ==
    /\ pc[t] \in FaultPcs
    /\ faults < MaxFaults
    /\ faults' = faults + 1
    /\ \E kind \in {"transient", "terminal"} : Raise(t, op[t], kind)
    /\ UNCHANGED <<requests, users, notified, drawn, calls>>
    /\ UNCHANGED <<cvars, hvars>>

\* wait_exponential is over: the next attempt of the method starts.
Retry(t) ==
    /\ pc[t] = "sleep"
    /\ pc' = [pc EXCEPT ![t] = "acquire"]
    /\ op' = [op EXCEPT ![t].attempt = op[t].attempt + 1]
    /\ UNCHANGED <<lock, requests, users, result, notified, drawn, calls, faults>>
    /\ UNCHANGED <<cvars, hvars>>

\* ------------------------------------------------------- requests sheet
\* create_request_row: requests_sheet.append_row(row_values).
CreateRequestRow(t) ==
    /\ pc[t] = "append"
    /\ requests' = Append(requests, NewRow(op[t].uuid, op[t].status))
    /\ Return(t, op[t], "ok")
    /\ UNCHANGED <<users, notified, drawn, calls, faults>>
    /\ UNCHANGED <<cvars, hvars>>

\* The append is applied by the store but its answer is lost (a timeout, a
\* 5xx after the write): append_row raises a retryable fault.
CreateRequestRowLost(t) ==
    /\ pc[t] = "append"
    /\ faults < MaxFaults
    /\ faults' = faults + 1
    /\ requests' = Append(requests, NewRow(op[t].uuid, op[t].status))
    /\ Raise(t, op[t], "transient")
    /\ UNCHANGED <<users, notified, drawn, calls>>
    /\ UNCHANGED <<cvars, hvars>>

\* update_request_after_upload: cell = find(request_uuid); if cell: ...
UpdateFind(t) ==
    /\ pc[t] = "u_find"
    /\ LET i == FindRow(requests, op[t].uuid) IN
        IF i = 0 THEN Return(t, op[t], "ok")
        ELSE Step(t, [op[t] EXCEPT !.row = i], "u_w2")
    /\ UNCHANGED <<requests, users, notified, drawn, calls, faults>>
    /\ UNCHANGED <<cvars, hvars>>

\* The commit without its status write.
UpdateStatusMissing(t) ==
    /\ pc[t] = "u_w2"
    /\ Step(t, op[t], "u_w5")
    /\ UNCHANGED <<requests, users, notified, drawn, calls, faults>>
    /\ UNCHANGED <<cvars, hvars>>

\* update_cell(cell.row, 2, "new")
UpdateStatus(t) ==
    /\ pc[t] = "u_w2"
    /\ requests' = UpdateCell(requests, op[t].row, "status", "new")
    /\ Step(t, [op[t] EXCEPT !.wrote = @ + 1], "u_w5")
    /\ UNCHANGED <<users, notified, drawn, calls, faults>>
    /\ UNCHANGED <<cvars, hvars>>

\* update_cell(cell.row, 5, photo_url)
UpdatePhoto(t) ==
    /\ pc[t] = "u_w5"
    /\ requests' = UpdateCell(requests, op[t].row, "photo", "url")
    /\ Return(t, [op[t] EXCEPT !.wrote = @ + 1], "ok")
    /\ UNCHANGED <<users, notified, drawn, calls, faults>>
    /\ UNCHANGED <<cvars, hvars>>

\* delete_request_by_uuid: find, delete_rows, True; False when not found.
DeleteRequest(t) ==
    /\ pc[t] = "d_find"
    /\ LET i == FindRow(requests, op[t].uuid) IN
        IF i = 0
        THEN requests' = requests /\ Return(t, op[t], "false")
        ELSE requests' = DeleteRows(requests, i) /\ Return(t, op[t], "true")
    /\ UNCHANGED <<users, notified, drawn, calls, faults>>
    /\ UNCHANGED <<cvars, hvars>>

\* accept_request without its status check.
AcceptGuardAny(status) == TRUE

\* accept_request: the guard "current_status != 'new'" passes.
AcceptGuard(status) == status = "new"

\* accept_request: find, then read column 2 and check it.
AcceptRead(t) ==
    /\ pc[t] = "a_read"
    /\ LET i == FindRow(requests, op[t].uuid)
           o == [op[t] EXCEPT !.row = i, !.seenStatus = RowAt(requests, i).status]
       IN IF i = 0 THEN Return(t, o, "false")
          ELSE IF ~AcceptGuard(requests[i].status) THEN Return(t, o, "false")
          ELSE Step(t, o, "a_w2")
    /\ UNCHANGED <<requests, users, notified, drawn, calls, faults>>
    /\ UNCHANGED <<cvars, hvars>>

\* update_cell(cell.row, 2, "in_progress")
AcceptStatus(t) ==
    /\ pc[t] = "a_w2"
    /\ requests' = UpdateCell(requests, op[t].row, "status", "in_progress")
    /\ Step(t, [op[t] EXCEPT !.wrote = @ + 1], "a_w9")
    /\ UNCHANGED <<users, notified, drawn, calls, faults>>
    /\ UNCHANGED <<cvars, hvars>>

\* update_cell(cell.row, 9, user_id)
AcceptAssignee(t) ==
    /\ pc[t] = "a_w9"
    /\ requests' = UpdateCell(requests, op[t].row, "assignee", CellOf(op[t].actor))
    /\ Step(t, [op[t] EXCEPT !.wrote = @ + 1], "a_w10")
    /\ UNCHANGED <<users, notified, drawn, calls, faults>>
    /\ UNCHANGED <<cvars, hvars>>

\* update_cell(cell.row, 10, user_name)
AcceptName(t) ==
    /\ pc[t] = "a_w10"
    /\ requests' = UpdateCell(requests, op[t].row, "aname", NameOf(op[t].actor))
    /\ Step(t, [op[t] EXCEPT !.wrote = @ + 1], "a_w11")
    /\ UNCHANGED <<users, notified, drawn, calls, faults>>
    /\ UNCHANGED <<cvars, hvars>>

\* update_cell(cell.row, 11, now), return True
AcceptTime(t) ==
    /\ pc[t] = "a_w11"
    /\ requests' = UpdateCell(requests, op[t].row, "accepted", "t")
    /\ Return(t, [op[t] EXCEPT !.wrote = @ + 1], "true")
    /\ UNCHANGED <<users, notified, drawn, calls, faults>>
    /\ UNCHANGED <<cvars, hvars>>

\* The guard of complete_request without its assignee check.
CompleteGuardNoOwner(status, cell, actor) ==
    IF IntOf(cell) = -1 THEN "error"
    ELSE IF status # "in_progress" THEN "false"
    ELSE "pass"

\* complete_request: what the guard yields for the cells of columns 2 and 9
\* and the caller: int() of column 9 is taken before the status is checked.
CompleteGuard(status, cell, actor) ==
    IF IntOf(cell) = -1 THEN "error"
    ELSE IF status # "in_progress" THEN "false"
    ELSE IF IntOf(cell) # actor THEN "false"
    ELSE "pass"

\* complete_request: find, then read columns 2 and 9 and check them.
CompleteRead(t) ==
    /\ pc[t] = "c_read"
    /\ LET i == FindRow(requests, op[t].uuid)
           o == [op[t] EXCEPT !.row = i,
                              !.seenStatus = RowAt(requests, i).status,
                              !.seenAssignee = RowAt(requests, i).assignee]
           g == CompleteGuard(RowAt(requests, i).status,
                              RowAt(requests, i).assignee, op[t].actor)
       IN IF i = 0 THEN Return(t, o, "false")
          ELSE IF g = "pass" THEN Step(t, o, "c_w2")
          ELSE Return(t, o, g)
    /\ UNCHANGED <<requests, users, notified, drawn, calls, faults>>
    /\ UNCHANGED <<cvars, hvars>>

\* update_cell(cell.row, 2, "completed")
CompleteStatus(t) ==
    /\ pc[t] = "c_w2"
    /\ requests' = UpdateCell(requests, op[t].row, "status", "completed")
    /\ Step(t, [op[t] EXCEPT !.wrote = @ + 1], "c_w12")
    /\ UNCHANGED <<users, notified, drawn, calls, faults>>
    /\ UNCHANGED <<cvars, hvars>>

\* update_cell(cell.row, 12, now)
CompleteTime(t) ==
    /\ pc[t] = "c_w12"
    /\ requests' = UpdateCell(requests, op[t].row, "completed", "t")
    /\ Return(t, [op[t] EXCEPT !.wrote = @ + 1], "true")
    /\ UNCHANGED <<users, notified, drawn, calls, faults>>
    /\ UNCHANGED <<cvars, hvars>>

\* ---------------------------------------------------------- users sheet
\* add_user / delete_user / update_user_name: self.get_users_worksheet()
\* returned the sheet.
GetUsersWorksheet(t) ==
    /\ pc[t] = "ws"
    /\ Step(t, op[t], "usr_act")
    /\ UNCHANGED <<requests, users, notified, drawn, calls, faults>>
    /\ UNCHANGED <<cvars, hvars>>

\* get_users_worksheet failed.  It is itself decorated with google_api_retry
\* and is synchronous: a transient fault is retried in place, the lock still
\* held; its RetryError and a terminal fault are not retried by the caller.
GetUsersWorksheetFault(t) ==
    /\ pc[t] = "ws"
    /\ faults < MaxFaults
    /\ faults' = faults + 1
    /\ \E kind \in {"transient", "terminal"} :
        IF Retries(kind, op[t].inner + 1)
        THEN Step(t, [op[t] EXCEPT !.inner = @ + 1, !.faulted = kind], "ws")
        ELSE Return(t, [op[t] EXCEPT !.faulted = "terminal"], "fault")
    /\ UNCHANGED <<requests, users, notified, drawn, calls>>
    /\ UNCHANGED <<cvars, hvars>>

\* add_user: users_sheet.append_row(row_values)
AddUser(t) ==
    /\ pc[t] = "usr_act" /\ op[t].name = "add_user"
    /\ users' = Append(users, [id |-> op[t].uid, name |-> op[t].uname])
    /\ Return(t, op[t], "ok")
    /\ UNCHANGED <<requests, notified, drawn, calls, faults>>
    /\ UNCHANGED <<cvars, hvars>>

\* delete_user: find, delete_rows, True; False when not found.
DeleteUser(t) ==
    /\ pc[t] = "usr_act" /\ op[t].name = "delete_user"
    /\ LET i == FindRow(users, op[t].uid) IN
        IF i = 0
        THEN users' = users /\ Return(t, op[t], "false")
        ELSE users' = DeleteRows(users, i) /\ Return(t, op[t], "true")
    /\ UNCHANGED <<requests, notified, drawn, calls, faults>>
    /\ UNCHANGED <<cvars, hvars>>

\* update_user_name: find, update_cell(cell.row, 2, new_name), True.
UpdateUserName(t) ==
    /\ pc[t] = "usr_act" /\ op[t].name = "update_user_name"
    /\ LET i == FindRow(users, op[t].uid) IN
        IF i = 0
        THEN users' = users /\ Return(t, op[t], "false")
        ELSE users' = UpdateCell(users, i, "name", op[t].uname)
             /\ Return(t, op[t], "true")
    /\ UNCHANGED <<requests, notified, drawn, calls, faults>>
    /\ UNCHANGED <<cvars, hvars>>

\* ------------------------------------------- steps outside the lock
\* upload_photo_to_drive: the link, or None after any failure (the except
\* clause returns None, so the retry decorator never sees a fault).
UploadPhotoToDrive(t) ==
    /\ pc[t] = "upload"
    /\ \E url \in {"url", Empty} :
        /\ url = Empty => faults < MaxFaults
        /\ faults' = IF url = Empty THEN faults + 1 ELSE faults
        /\ Goto(t, AfterUpload([op[t] EXCEPT !.failed =
                                    IF url = Empty THEN "upload" ELSE @], url),
                result[t])
    /\ UNCHANGED <<lock, requests, users, notified, drawn, calls>>
    /\ UNCHANGED <<cvars, hvars>>

\* send_new_request_notification: bot.send_message delivers or raises.
SendNewRequestNotification(t) ==
    /\ pc[t] = "notify"
    /\ \E sent \in BOOLEAN :
        /\ ~sent => faults < MaxFaults
        /\ faults' = IF sent THEN faults ELSE faults + 1
        /\ notified' = [notified EXCEPT ![op[t].uuid] =
                            IF sent THEN "sent" ELSE "failed"]
        /\ Goto(t, AfterNotify(op[t], sent), result[t])
    /\ UNCHANGED <<lock, requests, users, drawn, calls>>
    /\ UNCHANGED <<cvars, hvars>>

\* message.reply_text(SUCCESS_MESSAGE) delivers or raises.
ReplySuccess(t) ==
    /\ pc[t] = "reply"
    /\ \E ok \in BOOLEAN :
        /\ ~ok => faults < MaxFaults
        /\ faults' = IF ok THEN faults ELSE faults + 1
        /\ Goto(t, AfterReply([op[t] EXCEPT !.failed =
                                    IF ok THEN @ ELSE "reply"], ok), result[t])
    /\ UNCHANGED <<lock, requests, users, notified, drawn, calls>>
    /\ UNCHANGED <<cvars, hvars>>

\* ------------------------------------------------------------ behaviours
Next ==
    \E t \in Tasks :
        \/ CallGetPhoto(t)
        \/ CallSkipPhoto(t)
        \/ CallAccept(t)
        \/ CallComplete(t)
        \/ CallAddUser(t)
        \/ CallDeleteUser(t)
        \/ CallUpdateUserName(t)
        \/ Acquire(t)
        \/ Fault(t)
        \/ Retry(t)
        \/ CreateRequestRow(t)
        \/ CreateRequestRowLost(t)
        \/ UpdateFind(t)
        \/ UpdateStatus(t)
        \/ UpdatePhoto(t)
        \/ DeleteRequest(t)
        \/ AcceptRead(t)
        \/ AcceptStatus(t)
        \/ AcceptAssignee(t)
        \/ AcceptName(t)
        \/ AcceptTime(t)
        \/ CompleteRead(t)
        \/ CompleteStatus(t)
        \/ CompleteTime(t)
        \/ GetUsersWorksheet(t)
        \/ GetUsersWorksheetFault(t)
        \/ AddUser(t)
        \/ DeleteUser(t)
        \/ UpdateUserName(t)
        \/ UploadPhotoToDrive(t)
        \/ SendNewRequestNotification(t)
        \/ ReplySuccess(t)

Spec == Init /\ [][Next]_vars

\* ------------------------------------------------------------ properties
\* The last service call of task t has ended.
Ended(t, name) == pc[t] = "idle" /\ op[t].name = name

\* The row find() yields for an identity.
RowOf(rows, uuid) == RowAt(rows, FindRow(rows, uuid))

\* C1 -- Accept race exclusivity.  Two accept_request calls by distinct
\* actors, both made while the row was `new`, neither ending in a raised
\* fault (transient faults and retries allowed): exactly one returned true,
\* the row is in_progress with the winner as assignee, and the other call
\* returned false having written no cell.
C1_AcceptRaceExclusive ==
    \A w \in Tasks, l \in Tasks :
        ( /\ w # l
          /\ Ended(w, "accept_request") /\ Ended(l, "accept_request")
          /\ op[w].uuid = op[l].uuid /\ op[w].actor # op[l].actor
          /\ op[w].atCall = "new" /\ op[l].atCall = "new"
          /\ result[w] \in {"true", "false"} /\ result[l] \in {"true", "false"}
          /\ (result[w] = "true" \/ result[l] # "true") )
        => /\ result[w] = "true" /\ result[l] = "false"
           /\ op[l].wrote = 0
           /\ RowOf(requests, op[w].uuid).status = "in_progress"
           /\ RowOf(requests, op[w].uuid).assignee = CellOf(op[w].actor)

Rank(status) ==
    CASE status = "creating" -> 1
      [] status = "new" -> 2
      [] status = "in_progress" -> 3
      [] status = "completed" -> 4
      [] OTHER -> 0

\* C3 -- State reachability.  Every change of the status a reader sees for
\* an identity is the row disappearing, the row being appended by its
\* creation (creating or new), or one step forward in
\* creating -> new -> in_progress -> completed.
C3_StatusOrder ==
    [][\A u \in UUIDs :
        LET a == StatusOf(requests, u)
            b == StatusOf(requests', u)
        IN a # b =>
            \/ b = "absent"
            \/ /\ a = "absent"
               /\ \E t \in Tasks : pc[t] = "append" /\ op[t].uuid = u /\ op[t].status = b
            \/ a # "absent" /\ Rank(b) = Rank(a) + 1]_vars

\* C4 -- Saga abort.  A get_photo flow whose upload failed has ended: no row
\* with its identity is in the requests sheet.
C4_UploadFailureLeavesNoRow ==
    \A t \in Tasks :
        (op[t].flow = "get_photo" /\ op[t].failed = "upload" /\ pc[t] = "idle")
        => StatusOf(requests, op[t].uuid) = "absent"

\* C5 -- Saga commit.  When update_request_after_upload returns to get_photo
\* without raising, the row of that identity is present with status `new`
\* and a non-empty photo reference.
C5_SagaCommit ==
    [][\A t \in Tasks :
        ( /\ op[t].flow = "get_photo"
          /\ op[t].name = "update_request_after_upload"
          /\ pc[t] \in {"u_find", "u_w2", "u_w5"}
          /\ pc'[t] = "notify" )
        => /\ RowOf(requests', op[t].uuid).status = "new"
           /\ RowOf(requests', op[t].uuid).photo # Empty]_vars

\* C5 witness: the flow stands after the commit, before the notification.
C5_Witness ==
    \E t \in Tasks :
        /\ op[t].flow = "get_photo" /\ pc[t] = "notify" /\ result[t] = "ok"
        /\ RowOf(requests, op[t].uuid).status = "new"
        /\ RowOf(requests, op[t].uuid).photo = "url"

\* C6 -- Compensation.  Once the upload or the commit of a get_photo flow
\* failed, the flow has issued delete_request_by_uuid for its identity, the
\* delete touches the sheet only while holding the lock, and no creation
\* notification was sent for the identity.
C6_Compensation ==
    \A t \in Tasks :
        (op[t].flow = "get_photo" /\ op[t].failed \in {"upload", "commit"})
        => /\ op[t].rolled
           /\ op[t].name = "delete_request_by_uuid"
           /\ pc[t] \in {"acquire", "d_find", "idle"}
           /\ pc[t] = "d_find" => lock = t
           /\ notified[op[t].uuid] = "none"

\* C6 witness: the commit failed and the rollback delete removed the row.
C6_Witness ==
    \E t \in Tasks :
        /\ op[t].flow = "get_photo" /\ op[t].failed = "commit"
        /\ Ended(t, "delete_request_by_uuid") /\ result[t] = "true"
        /\ StatusOf(requests, op[t].uuid) = "absent"

\* C7 -- A failed creation notification does not trigger the rollback: the
\* handler goes on to its reply, no delete is issued, the sheet is left as it
\* is and the committed row is still there.
C7_NotifyFailureKeepsRequest ==
    [][\A t \in Tasks :
        (pc[t] = "notify" /\ notified'[op[t].uuid] = "failed"
                          /\ notified[op[t].uuid] # "failed")
        => /\ pc'[t] = "reply"
           /\ ~op'[t].rolled
           /\ requests' = requests
           /\ StatusOf(requests', op[t].uuid) \notin {"absent", "creating"}]_vars

\* C7 witness: the notification failed and the request is still `new`.
C7_Witness ==
    \E t \in Tasks :
        /\ pc[t] = "reply" /\ notified[op[t].uuid] = "failed" /\ ~op[t].rolled
        /\ StatusOf(requests, op[t].uuid) = "new"

\* C8 -- A rollback delete that met a fault ends as a fault raised to its
\* caller, not as a returned value.
C8_DeleteFaultSurfaced ==
    \A t \in Tasks :
        (Ended(t, "delete_request_by_uuid") /\ op[t].faulted # "none")
        => result[t] = "fault"

\* C9 -- Guard rejections are values.  A complete_request call that found
\* the row in a status other than in_progress, and an accept_request call
\* that found it in a status other than new, returned false unless a store
\* fault was raised.
C9_GuardRejectionsAreValues ==
    \A t \in Tasks :
        /\ ( /\ Ended(t, "complete_request")
             /\ op[t].seenStatus \in {"creating", "new", "completed"}
             /\ result[t] # "fault" )
           => result[t] = "false"
        /\ ( /\ Ended(t, "accept_request")
             /\ op[t].seenStatus \in {"creating", "in_progress", "completed"}
             /\ result[t] # "fault" )
           => result[t] = "false"

\* C10 -- Mutual exclusion.  A task inside the store-access section of any
\* mutating method holds the lock of the service, so no two tasks are inside
\* such sections at once, whichever sheets they work on.
C10_MutualExclusion ==
    /\ \A t \in Tasks : pc[t] \in LockedPcs => lock = t
    /\ \A t1 \in Tasks, t2 \in Tasks :
        (pc[t1] \in LockedPcs /\ pc[t2] \in LockedPcs) => t1 = t2

\* C10 witness: one task is inside a users-sheet section while another, on
\* the requests sheet, waits for the lock.
C10_Witness ==
    \E t1 \in Tasks, t2 \in Tasks :
        /\ pc[t1] = "usr_act" /\ lock = t1
        /\ pc[t2] = "acquire" /\ StoreOf(op[t2].name) = "requests"

\* The cells a transition writes: 4 for accept_request, 2 for
\* complete_request.
Writes(name) == IF name = "accept_request" THEN 4 ELSE 2

\* C11 -- Read-verify-write atomicity.  While an accept_request or
\* complete_request call has read the row and written some but not yet all
\* cells of its transition, no other task is inside a store-access section.
C11_ReadVerifyWriteAtomic ==
    \A t1 \in Tasks, t2 \in Tasks :
        ( /\ t1 # t2
          /\ op[t1].name \in {"accept_request", "complete_request"}
          /\ pc[t1] # "idle"
          /\ op[t1].seenStatus # "none"
          /\ op[t1].wrote > 0 /\ op[t1].wrote < Writes(op[t1].name) )
        => pc[t2] \notin LockedPcs

\* The three assignment cells of a row are all unset or all set.
AssignedAllOrNone(r) ==
    \/ r.assignee = Empty /\ r.aname = Empty /\ r.accepted = Empty
    \/ r.assignee # Empty /\ r.aname # Empty /\ r.accepted # Empty

\* C12 -- Row invariant.  Whenever no operation is inside its store-access
\* section, every row has its assignee id, assignee name and accepted time
\* all unset or all set, and a completed time only with status completed and
\* the assignee set.
C12_RowInvariant ==
    lock = NoTask =>
        \A i \in DOMAIN requests :
            /\ AssignedAllOrNone(requests[i])
            /\ requests[i].completed # Empty
               => /\ requests[i].status = "completed"
                  /\ requests[i].assignee # Empty

\* C15 -- Every mutating step is retried.  A remote call failing with a
\* transient fault inside any of the eight mutating methods, below the
\* attempt ceiling, is followed by a further attempt (the sleep before it, or
\* the retry in place of get_users_worksheet), never by the end of the call.
C15_TransientFaultRetried ==
    [][\A t \in Tasks :
        ( /\ pc[t] \in LockedPcs
          /\ faults' = faults + 1
          /\ (pc'[t] # pc[t] \/ op'[t] # op[t])
          /\ op'[t].faulted = "transient"
          /\ op[t].attempt < MaxAttempts )
        => pc'[t] \in {"sleep", "ws"}]_vars

\* C16 -- At-most-once append.  The requests sheet never holds two rows with
\* the same request identity.
C16_AtMostOneRow ==
    \A u \in UUIDs :
        Cardinality({i \in DOMAIN requests : requests[i].id = u}) <= 1

\* ------------------------------------------------ retries to the ceiling
\* A remote call under the lock fails with a retryable fault (a
\* RequestException, an APIError with status >= 500) at any attempt up to the
\* ceiling: tenacity alone decides how often the method is run again.
TransientFault(t) ==
    /\ pc[t] \in FaultPcs
    /\ op[t].attempt <= MaxAttempts
    /\ Raise(t, op[t], "transient")
    /\ UNCHANGED <<requests, users, notified, drawn, calls, faults>>
    /\ UNCHANGED <<cvars, hvars>>

\* The behaviours in which a method may fail at every one of its attempts:
\* the creation without photo, the two transitions and a user deletion.
NextRetry ==
    \E t \in Tasks :
        \/ CallSkipPhoto(t)
        \/ CallAccept(t)
        \/ CallComplete(t)
        \/ CallDeleteUser(t)
        \/ Acquire(t)
        \/ TransientFault(t)
        \/ Retry(t)
        \/ CreateRequestRow(t)
        \/ AcceptRead(t)
        \/ AcceptStatus(t)
        \/ AcceptAssignee(t)
        \/ AcceptName(t)
        \/ AcceptTime(t)
        \/ CompleteRead(t)
        \/ CompleteStatus(t)
        \/ CompleteTime(t)
        \/ GetUsersWorksheet(t)
        \/ DeleteUser(t)
        \/ SendNewRequestNotification(t)
        \/ ReplySuccess(t)

SpecRetry == Init /\ [][NextRetry]_vars

MaxReads == 2
\* Mutations made through UserService over one behaviour.
MaxMutations == 1
\* The clock stops here.
MaxTime == 120
\* cache_ttl_seconds = 60
CacheTtl == 60

\* The state of GoogleAPIService, of the sheets and of the tasks.
svars == <<lock, requests, users, pc, op, result, notified, drawn, calls, faults>>

\* The cache is never used.
CacheHitNever(c, s, n) == FALSE

\* get_all_users: self._user_cache is not None and
\* (current_time - self._cache_timestamp) < self._cache_ttl
CacheHit(c, s, n) == c.obj # 0 /\ n - s < CacheTtl

\* get_all_users, cache hit: the cached list object is returned.
GetAllUsersHit ==
    /\ last.n < MaxReads
    /\ CacheHit(cache, stamp, now)
    /\ last' = [n |-> last.n + 1, how |-> "hit", obj |-> cache.obj,
                rows |-> cache.rows]
    /\ UNCHANGED <<cache, stamp, now, objs, ucall>>
    /\ UNCHANGED <<svars, hvars>>

\* get_all_users, refresh: get_users_worksheet().get_all_records() is read
\* (without the lock), a new list is built, cached and returned.
GetAllUsersFetch ==
    /\ last.n < MaxReads
    /\ ~CacheHit(cache, stamp, now)
    /\ cache' = [obj |-> objs + 1, rows |-> users]
    /\ stamp' = now
    /\ objs' = objs + 1
    /\ last' = [n |-> last.n + 1, how |-> "fresh", obj |-> objs + 1,
                rows |-> users]
    /\ UNCHANGED <<now, ucall>>
    /\ UNCHANGED <<svars, hvars>>

\* The refresh failure leaving get_all_users as an exception.
OnFetchFailureRaises(c) == [how |-> "raised", obj |-> 0, rows |-> <<>>]

\* get_all_users, except branch: the stale cache if there is one, else [].
OnFetchFailure(c) ==
    IF c.obj # 0 THEN [how |-> "stale", obj |-> c.obj, rows |-> c.rows]
    ELSE [how |-> "empty", obj |-> 0, rows |-> <<>>]

\* A failed refresh that has already moved the timestamp.
GetAllUsersFetchFailedStamped ==
    /\ last.n < MaxReads
    /\ ~CacheHit(cache, stamp, now)
    /\ LET r == OnFetchFailure(cache) IN
        last' = [n |-> last.n + 1, how |-> r.how, obj |-> r.obj, rows |-> r.rows]
    /\ stamp' = now
    /\ UNCHANGED <<cache, now, objs, ucall>>
    /\ UNCHANGED <<svars, hvars>>

\* get_all_users, refresh failed: the fetch (or the parse of a record) raised.
GetAllUsersFetchFailed ==
    /\ last.n < MaxReads
    /\ ~CacheHit(cache, stamp, now)
    /\ LET r == OnFetchFailure(cache) IN
        last' = [n |-> last.n + 1, how |-> r.how, obj |-> r.obj, rows |-> r.rows]
    /\ UNCHANGED <<cache, stamp, now, objs, ucall>>
    /\ UNCHANGED <<svars, hvars>>

\* What self.google_api.add_user(...), delete_user(...) and
\* update_user_name(...) evaluate to when called without await: the
\* coroutine object of the async method, whose body has not run.
CoroutineCall == "coroutine"

\* The branch taken only for the value True.
TruthyOnlyTrue(v) == v = "true"

\* bool(value) as "if deleted:" / "if updated:" take it.
Truthy(v) == v \notin {"none", "false"}

\* The cache left as it is.
ClearCacheSkipped(c) == c

\* self._user_cache = None
ClearCache(c) == NoSnapshot

\* UserService.add_user leaving the cache as it is.
UserServiceAddUserKeepsCache ==
    /\ ucall.n < MaxMutations
    /\ \E id \in UserIds :
        ucall' = [n |-> ucall.n + 1, name |-> "add_user", id |-> id,
                  ret |-> "none", at |-> objs]
    /\ UNCHANGED <<cache, stamp, now, objs, last>>
    /\ UNCHANGED <<svars, hvars>>

\* UserService.add_user: the call, then the cache is cleared.
UserServiceAddUser ==
    /\ ucall.n < MaxMutations
    /\ \E id \in UserIds :
        ucall' = [n |-> ucall.n + 1, name |-> "add_user", id |-> id,
                  ret |-> "none", at |-> objs]
    /\ cache' = ClearCache(cache)
    /\ stamp' = 0
    /\ UNCHANGED <<now, objs, last>>
    /\ UNCHANGED <<svars, hvars>>

\* UserService.delete_user: deleted = the call; if deleted: clear the cache.
UserServiceDeleteUser ==
    /\ ucall.n < MaxMutations
    /\ LET deleted == CoroutineCall IN
        /\ \E id \in UserIds :
            ucall' = [n |-> ucall.n + 1, name |-> "delete_user", id |-> id,
                      ret |-> deleted, at |-> objs]
        /\ cache' = IF Truthy(deleted) THEN ClearCache(cache) ELSE cache
        /\ stamp' = IF Truthy(deleted) THEN 0 ELSE stamp
    /\ UNCHANGED <<now, objs, last>>
    /\ UNCHANGED <<svars, hvars>>

\* UserService.update_user_name: updated = the call; if updated: clear.
UserServiceUpdateUserName ==
    /\ ucall.n < MaxMutations
    /\ LET updated == CoroutineCall IN
        /\ \E id \in UserIds :
            ucall' = [n |-> ucall.n + 1, name |-> "update_user_name",
                      id |-> id, ret |-> updated, at |-> objs]
        /\ cache' = IF Truthy(updated) THEN ClearCache(cache) ELSE cache
        /\ stamp' = IF Truthy(updated) THEN 0 ELSE stamp
    /\ UNCHANGED <<now, objs, last>>
    /\ UNCHANGED <<svars, hvars>>

\* time.time() advances, to just below or to the TTL.
Tick ==
    /\ \E d \in {CacheTtl - 1, CacheTtl} :
        /\ now + d <= MaxTime
        /\ now' = now + d
    /\ UNCHANGED <<cache, stamp, objs, last, ucall>>
    /\ UNCHANGED <<svars, hvars>>

\* The UserService and, beside it, awaited calls of the three user methods of
\* GoogleAPIService changing the users sheet.
NextCache ==
    \/ GetAllUsersHit
    \/ GetAllUsersFetch
    \/ GetAllUsersFetchFailed
    \/ UserServiceAddUser
    \/ UserServiceDeleteUser
    \/ UserServiceUpdateUserName
    \/ Tick
    \/ \E t \in Tasks :
        \/ CallAddUser(t)
        \/ CallDeleteUser(t)
        \/ CallUpdateUserName(t)
        \/ Acquire(t)
        \/ GetUsersWorksheet(t)
        \/ AddUser(t)
        \/ DeleteUser(t)
        \/ UpdateUserName(t)

InitCache ==
    /\ requests = <<>>
    /\ users \in InitialUsers
    /\ InitTasks
    /\ InitUserService
    /\ InitHandlers

SpecCache == InitCache /\ [][NextCache]_vars

\* C17 -- Cache hit.  A get_all_users call made while a snapshot is cached
\* and younger than the TTL returns that very list object, builds no new one
\* and leaves the cache as it is; if the previous call returned the cached
\* object, both calls returned the same object.
C17_CacheHit ==
    [][( /\ last'.n # last.n
         /\ cache.obj # 0
         /\ now - stamp < CacheTtl )
       => /\ last'.obj = cache.obj /\ last'.rows = cache.rows
          /\ objs' = objs
          /\ cache' = cache /\ stamp' = stamp
          /\ last.obj = cache.obj => last'.obj = last.obj]_vars

\* C17 witness: the second call, one second before the TTL ends, returned
\* the object of the first although the sheet has changed since.
C17_Witness ==
    /\ last.n = 2 /\ last.how = "hit" /\ last.obj = 1 /\ objs = 1
    /\ now - stamp = CacheTtl - 1
    /\ users # cache.rows

\* C18 -- Write-triggered invalidation.  When add_user, delete_user or
\* update_user_name of UserService returns, no snapshot is cached; and a
\* get_all_users call made with no snapshot cached does not answer from the
\* cache, whatever the clock says: it fetches.
C18_WriteInvalidates ==
    [][/\ ucall'.n # ucall.n => cache' = NoSnapshot
       /\ (last'.n # last.n /\ cache = NoSnapshot)
          => /\ last'.how \in {"fresh", "empty"}
             /\ last'.how = "fresh" => (objs' = objs + 1 /\ last'.rows = users)]_vars

\* C18 witness: a snapshot was cached, a mutation went through UserService
\* and the next call, within the TTL, fetched again.
C18_Witness ==
    /\ ucall.n = 1 /\ last.n = 2 /\ last.how = "fresh" /\ objs = 2
    /\ now < CacheTtl

\* C19 -- Stale on failure.  A get_all_users call whose refresh failed does
\* not raise: it returns the cached object if there is one and an empty list
\* otherwise, and leaves the cache as it is.
C19_StaleOnFailure ==
    [][( /\ last'.n # last.n
         /\ ~(cache.obj # 0 /\ now - stamp < CacheTtl)
         /\ objs' = objs )
       => /\ last'.how # "raised"
          /\ cache' = cache
          /\ cache.obj # 0 => (last'.obj = cache.obj /\ last'.rows = cache.rows)
          /\ cache.obj = 0 => (last'.obj = 0 /\ last'.rows = <<>>)]_vars

\* C19 witness: the TTL is over, the refresh failed and the stale snapshot,
\* which differs from the sheet, was returned.
C19_Witness ==
    /\ last.how = "stale" /\ last.obj = cache.obj /\ cache.obj # 0
    /\ now - stamp >= CacheTtl
    /\ users # last.rows

\* C20 -- User mutations reach the store.  When add_user of UserService has
\* returned, the users sheet holds a row for the user; when delete_user has
\* returned a true value, it holds none.
C20_MutationReachesStore ==
    [][ucall'.n # ucall.n =>
        /\ ucall'.name = "add_user"
           => \E i \in DOMAIN users' : users'[i].id = ucall'.id
        /\ (ucall'.name = "delete_user" /\ Truthy(ucall'.ret))
           => \A i \in DOMAIN users' : users'[i].id # ucall'.id]_vars

\* C21 -- Result of delete_user / update_user_name of UserService.  The
\* value returned is true exactly when a row with the id was in the users
\* sheet and was changed (removed, renamed); when there was none it is false
\* and the cached snapshot and its timestamp are left as they were.
C21_UserMutationResult ==
    [][( /\ ucall'.n # ucall.n
         /\ ucall'.name \in {"delete_user", "update_user_name"} )
       => LET had == \E i \in DOMAIN users : users[i].id = ucall'.id IN
          /\ Truthy(ucall'.ret) <=> (had /\ users' # users)
          /\ ~had => ( /\ ~Truthy(ucall'.ret)
                       /\ cache' = cache /\ stamp' = stamp )]_vars

\* C22 -- Creation without photo.  A skip_photo flow never has a row with
\* status creating for its identity in the sheet, makes no service call but
\* create_request_row and never issues the rollback delete.
C22_SkipPhotoNoDraft ==
    \A t \in Tasks :
        op[t].flow = "skip_photo" =>
            /\ op[t].name = "create_request_row"
            /\ op[t].status = "new"
            /\ ~op[t].rolled
            /\ \A i \in DOMAIN requests :
                requests[i].id = op[t].uuid => requests[i].status # "creating"

\* C22 witness: the append of a skip_photo flow raised and the flow ended
\* with no row and no rollback.
C22_Witness ==
    \E t \in Tasks :
        /\ op[t].flow = "skip_photo" /\ op[t].failed = "create"
        /\ pc[t] = "idle" /\ result[t] = "fault" /\ ~op[t].rolled
        /\ StatusOf(requests, op[t].uuid) = "absent"

\* ----------------------------------------------------- sequential callers
\* No call is under way.
Quiet == \A t \in Tasks : pc[t] = "idle"

\* accept_request called once the previous call has returned.
SeqAccept(t) == Quiet /\ CallAccept(t)

\* complete_request called once the previous call has returned.
SeqComplete(t) == Quiet /\ CallComplete(t)

\* The two transitions called one after the other, the sheet answering
\* every remote call.
NextSeq ==
    \E t \in Tasks :
        \/ SeqAccept(t)
        \/ SeqComplete(t)
        \/ Acquire(t)
        \/ AcceptRead(t)
        \/ AcceptStatus(t)
        \/ AcceptAssignee(t)
        \/ AcceptName(t)
        \/ AcceptTime(t)
        \/ CompleteRead(t)
        \/ CompleteStatus(t)
        \/ CompleteTime(t)

SpecSeq == Init /\ [][NextSeq]_vars

\* C23 -- Sequential lifecycle.  In calls made one after the other:
\* accept_request returns true exactly when it read status new, and on its
\* return the row is in_progress with assignee id, name and accepted time of
\* the caller; a row that left status new never returns to it, so every
\* later accept_request returns false; complete_request on an in_progress
\* row returns false to any actor but the assignee and writes nothing, and
\* returns true to the assignee, the row then being completed with its
\* completed time set.
C23_SequentialLifecycle ==
    [][\A t \in Tasks :
        LET r == RowOf(requests', op[t].uuid) IN
        /\ (pc[t] = "a_read" /\ pc'[t] = "idle")
           => /\ op'[t].seenStatus # "new"
              /\ result'[t] = "false" /\ requests' = requests
        /\ (pc[t] = "a_read" /\ pc'[t] = "a_w2") => op'[t].seenStatus = "new"
        /\ (pc[t] = "a_w11" /\ pc'[t] = "idle")
           => /\ result'[t] = "true"
              /\ r.status = "in_progress"
              /\ r.assignee = CellOf(op[t].actor)
              /\ r.aname = NameOf(op[t].actor)
              /\ r.accepted # Empty
        /\ StatusOf(requests, op[t].uuid) \in {"in_progress", "completed"}
           => StatusOf(requests', op[t].uuid) # "new"
        /\ ( /\ pc[t] = "c_read" /\ pc'[t] = "idle"
             /\ op'[t].seenStatus = "in_progress" )
           => /\ op'[t].seenAssignee # CellOf(op[t].actor)
              /\ result'[t] = "false" /\ requests' = requests
        /\ ( /\ pc[t] = "c_read" /\ pc'[t] = "c_w2" )
           => /\ op'[t].seenStatus = "in_progress"
              /\ op'[t].seenAssignee = CellOf(op[t].actor)
        /\ (pc[t] = "c_w12" /\ pc'[t] = "idle")
           => /\ result'[t] = "true"
              /\ r.status = "completed" /\ r.completed # Empty
              /\ r.assignee = CellOf(op[t].actor)]_vars

\* C23 witness: on the request accepted by user 7, accept_request by user 9
\* has returned false and complete_request by user 7 has returned true.
C23_Witness ==
    \E t1 \in Tasks, t2 \in Tasks :
        /\ Ended(t1, "accept_request") /\ op[t1].actor = 9
        /\ op[t1].seenStatus = "in_progress" /\ result[t1] = "false"
        /\ Ended(t2, "complete_request") /\ op[t2].actor = 7
        /\ result[t2] = "true"
        /\ RowOf(requests, op[t2].uuid).status = "completed"
        /\ RowOf(requests, op[t2].uuid).assignee = CellOf(7)

(***************************************************************************)
(* The role gate: the require_role wrapper around a handler.               *)
(***************************************************************************)

\* How many updates the gate is run on.
MaxUpdates == 2

\* The roles a directory row may carry (a free string in the User model) and
\* "none" for a lookup that finds no user.
Roles == {"admin", "housekeeper", "technician", "guest"}

\* The role lists the handlers are wrapped with.
RoleLists ==
    { {"admin", "housekeeper", "technician"}, {"admin"},
      {"housekeeper", "admin"}, {"technician", "admin"} }

\* What an update carries: a callback query, a message only, or neither.
UpdateKinds == {"callback", "message", "other"}

\* update.effective_user: 0 stands for None.
EffectiveUsers == {0} \cup UserIds

RoleAllowedAny(found, roles) == found # "none"

\* `db_user and db_user.role in roles`.
RoleAllowed(found, roles) == found \in roles

\* The denial branch: the callback query is answered if there is one, else
\* the effective message is replied to, else nothing is sent.
Denial(kind) ==
    IF kind = "callback" THEN "callback_query.answer"
    ELSE IF kind = "message" THEN "effective_message.reply_text"
    ELSE "none"

\* One run of the wrapper, as the record of what it did.
Wrapper(n, user, found, kind, roles) ==
    IF user = 0
    THEN [n |-> n, user |-> 0, found |-> "none", kind |-> kind,
          roles |-> roles, looked |-> FALSE, invoked |-> FALSE,
          stored |-> "none", denied |-> "none"]
    ELSE IF RoleAllowed(found, roles)
    THEN [n |-> n, user |-> user, found |-> found, kind |-> kind,
          roles |-> roles, looked |-> TRUE, invoked |-> TRUE,
          stored |-> found, denied |-> "none"]
    ELSE [n |-> n, user |-> user, found |-> found, kind |-> kind,
          roles |-> roles, looked |-> TRUE, invoked |-> FALSE,
          stored |-> "none", denied |-> Denial(kind)]

\* An update reaches a wrapped handler.
RequireRole ==
    /\ gate.n < MaxUpdates
    /\ \E user \in EffectiveUsers, found \in Roles \cup {"none"},
          kind \in UpdateKinds, roles \in RoleLists :
          gate' = Wrapper(gate.n + 1, user, found, kind, roles)
    /\ UNCHANGED <<lock, requests, users, pc, op, result, notified, drawn,
                   calls, faults, cvars, mail>>

NextGate == RequireRole

SpecGate == Init /\ [][NextGate]_vars

\* C24 -- Role gate, as the code has it.  For an update that carries a user,
\* the handler is invoked exactly when the directory lookup returns a user
\* whose role is in the list, and then that user record is in the context
\* when the handler runs; otherwise the handler is not invoked and the denial
\* goes to the callback query if the update has one, else to the effective
\* message if it has one, and nowhere if it has neither.  An update without
\* a user is dropped: no lookup, no handler, no denial.
C24_RoleGate ==
    gate.n > 0 =>
        /\ gate.invoked <=>
               (gate.user # 0 /\ gate.found # "none" /\ gate.found \in gate.roles)
        /\ gate.invoked => gate.stored = gate.found /\ gate.denied = "none"
        /\ ~gate.invoked /\ gate.user # 0 =>
               /\ gate.stored = "none"
               /\ gate.kind = "callback" => gate.denied = "callback_query.answer"
               /\ gate.kind = "message" =>
                      gate.denied = "effective_message.reply_text"
               /\ gate.kind = "other" => gate.denied = "none"
        /\ gate.user = 0 => ~gate.looked /\ gate.denied = "none"

\* C24 as stated: invoked exactly when the lookup returns a user with a
\* listed role, the record stored first; otherwise never invoked and a
\* denial reply sent.
C24_RoleGateAlwaysDenies ==
    gate.n > 0 =>
        /\ gate.invoked <=> (gate.found # "none" /\ gate.found \in gate.roles)
        /\ gate.invoked => gate.stored = gate.found
        /\ ~gate.invoked => gate.denied # "none"

\* A technician pressed a button of an admin-only handler and was denied on
\* the callback query.
C24_Witness ==
    /\ gate.n > 0
    /\ gate.user # 0
    /\ gate.found = "technician"
    /\ gate.roles = {"admin"}
    /\ ~gate.invoked
    /\ gate.denied = "callback_query.answer"

(***************************************************************************)
(* The handlers that send text through bot.send_message: error_handler,    *)
(* unauthorized_user_handler and send_new_request_notification.  A text is *)
(* modelled by its length, a message by the slice [lo, hi) of the text it  *)
(* carries, and mail.log is the sequence of calls of send_message.         *)
(***************************************************************************)

\* Telegram's limit on the length of one message, as error_handler has it.
MessageLimit == 4096

\* settings.admin_ids, and the technicians' chat.
AdminIds == <<101, 102, 103>>
TechChat == 500

\* Lengths of a rendered text: short, at the limit, just over it, two full
\* chunks, two chunks and one character.
TextLengths == {100, 4096, 4097, 8192, 8193}

\* The length of the notice about an unauthorized user.
NoticeLength == 200

\* Everything but mail.
notmail == <<lock, requests, users, pc, op, result, notified, drawn, calls,
             faults, cvars, gate>>

Min(a, b) == IF a < b THEN a ELSE b

\* Telegram refuses a message longer than its limit; any send may also fail
\* for another reason.
SendOutcomes(lo, hi) == IF hi - lo > MessageLimit THEN {FALSE} ELSE BOOLEAN

Sent(to, lo, hi, ok) == [to |-> to, lo |-> lo, hi |-> hi, ok |-> ok]

\* An exception reaches the error handler: the report is rendered.
ErrorHandlerStart ==
    /\ mail.job = "none"
    /\ \E len \in TextLengths :
          mail' = [mail EXCEPT !.job = "error_report", !.len = len,
                               !.i = 1, !.x = 0]
    /\ UNCHANGED notmail

AbortBatch(i) == Len(AdminIds) + 1

\* `except Exception` inside the loop over admin_ids: the loop goes on with
\* the next admin.
AfterFailure(i) == i + 1

\* One send_message of error_handler: the slice at x of a long report, the
\* whole of a short one.
ErrorHandlerSend ==
    /\ mail.job = "error_report"
    /\ ~mail.done
    /\ mail.i <= Len(AdminIds)
    /\ LET long == mail.len > MessageLimit
           lo   == IF long THEN mail.x ELSE 0
           hi   == IF long THEN Min(mail.x + MessageLimit, mail.len)
                   ELSE mail.len
           more == long /\ mail.x + MessageLimit < mail.len
       IN  \E ok \in SendOutcomes(lo, hi) :
              LET i2 == IF ~ok THEN AfterFailure(mail.i)
                        ELSE IF more THEN mail.i ELSE mail.i + 1
                  x2 == IF ok /\ more THEN mail.x + MessageLimit ELSE 0
              IN  mail' = [mail EXCEPT
                      !.log = Append(@, Sent(AdminIds[mail.i], lo, hi, ok)),
                      !.i = i2, !.x = x2,
                      !.done = i2 > Len(AdminIds)]
    /\ UNCHANGED notmail

\* A text message from a user who is not in the directory.
UnauthorizedStart ==
    /\ mail.job = "none"
    /\ mail' = [mail EXCEPT !.job = "unauthorized", !.len = NoticeLength,
                            !.i = 1, !.x = 0]
    /\ UNCHANGED notmail

\* One send_message of the loop over admin_ids.
UnauthorizedSend ==
    /\ mail.job = "unauthorized"
    /\ ~mail.done
    /\ mail.i <= Len(AdminIds)
    /\ \E ok \in SendOutcomes(0, mail.len) :
          mail' = [mail EXCEPT
              !.log = Append(@, Sent(AdminIds[mail.i], 0, mail.len, ok)),
              !.i = IF ok THEN mail.i + 1 ELSE AfterFailure(mail.i)]
    /\ UNCHANGED notmail

\* After the loop the user is answered; the handler ends either way.
UnauthorizedReply ==
    /\ mail.job = "unauthorized"
    /\ ~mail.done
    /\ mail.i > Len(AdminIds)
    /\ mail' = [mail EXCEPT !.done = TRUE]
    /\ UNCHANGED notmail

\* A new request is announced: the notification is rendered.
NotificationStart ==
    /\ mail.job = "none"
    /\ \E len \in TextLengths :
          mail' = [mail EXCEPT !.job = "notification", !.len = len,
                               !.i = 1, !.x = 0]
    /\ UNCHANGED notmail

\* The one send_message of send_new_request_notification, with the whole
\* text; its failure is logged.
NotificationSend ==
    /\ mail.job = "notification"
    /\ ~mail.done
    /\ \E ok \in SendOutcomes(0, mail.len) :
          mail' = [mail EXCEPT
              !.log = Append(@, Sent(TechChat, 0, mail.len, ok)),
              !.done = TRUE]
    /\ UNCHANGED notmail

NextMail ==
    \/ ErrorHandlerStart
    \/ ErrorHandlerSend
    \/ UnauthorizedStart
    \/ UnauthorizedSend
    \/ UnauthorizedReply
    \/ NotificationStart
    \/ NotificationSend

SpecMail == Init /\ [][NextMail]_vars

\* The messages handed to send_message for one recipient, in order.
RECURSIVE SentTo(_, _)
SentTo(log, to) ==
    IF log = <<>> THEN <<>>
    ELSE IF Head(log).to = to THEN <<Head(log)>> \o SentTo(Tail(log), to)
    ELSE SentTo(Tail(log), to)

\* C25 -- Message chunking.  No message handed to send_message is longer
\* than the limit; the messages for one recipient are consecutive slices of
\* the rendered text, starting at its beginning, each following a delivered
\* one; and a recipient all of whose messages were delivered has received
\* the whole text -- for the new-request notification as for the error
\* report.
C25_Chunking ==
    mail.job \in {"error_report", "notification"} =>
        \A to \in {AdminIds[a] : a \in DOMAIN AdminIds} \cup {TechChat} :
            LET m == SentTo(mail.log, to)
            IN  /\ \A k \in DOMAIN m :
                       /\ m[k].hi - m[k].lo <= MessageLimit
                       /\ m[k].lo = IF k = 1 THEN 0 ELSE m[k - 1].hi
                       /\ k > 1 => m[k - 1].ok
                /\ (mail.done /\ m # <<>> /\ \A k \in DOMAIN m : m[k].ok) =>
                       m[Len(m)].hi = mail.len

\* C26 -- Batch delivery.  When a handler that writes to the admins has
\* ended, every admin id of the list has had a send attempt, whatever
\* happened to the sends before it.
C26_BatchDelivery ==
    (mail.done /\ mail.job \in {"error_report", "unauthorized"}) =>
        \A a \in DOMAIN AdminIds :
            \E k \in DOMAIN mail.log : mail.log[k].to = AdminIds[a]

\* The send to the first admin failed, the one to the second as well, and
\* the third admin was still written to.
C26_Witness ==
    /\ mail.done
    /\ mail.job \in {"error_report", "unauthorized"}
    /\ \E k \in DOMAIN mail.log :
          mail.log[k].to = AdminIds[1] /\ ~mail.log[k].ok
    /\ \E k \in DOMAIN mail.log :
          mail.log[k].to = AdminIds[2] /\ ~mail.log[k].ok
    /\ \E k \in DOMAIN mail.log :
          mail.log[k].to = AdminIds[3] /\ mail.log[k].ok

(***************************************************************************)
(* The request rows under faults: rollback, torn transitions, assignee.    *)
(***************************************************************************)

\* Task t's delete_request_by_uuid removes a row in this step.
Deletes(t) ==
    /\ pc[t] = "d_find"
    /\ pc'[t] # "d_find"
    /\ Len(requests') < Len(requests)

\* C27 -- Every row removed by delete_request_by_uuid is still in status
\* creating when it is removed: a row that has reached status new, or a
\* later one, is never deleted.
C27_DeleteOnlyCreating ==
    [][\A t \in Tasks :
          Deletes(t) => RowOf(requests, op[t].uuid).status = "creating"]_vars

\* C28 -- No partial transition.  A call of accept_request or
\* complete_request that ended with anything but true has written no cell
\* of the row, in any of its attempts, and one that ended with true has
\* written all the cells of its transition.
C28_NoPartialTransition ==
    \A t \in Tasks :
        (pc[t] = "idle" /\ op[t].name \in {"accept_request", "complete_request"})
        => IF result[t] = "true"
           THEN op[t].wrote = Writes(op[t].name)
           ELSE op[t].wrote = 0

\* C29 -- Whenever no operation is inside its store-access section, every
\* request row with status in_progress or completed has a non-empty
\* assignee id.
C29_AssigneePresent ==
    (\A t \in Tasks : pc[t] \notin LockedPcs) =>
        \A i \in DOMAIN requests :
            requests[i].status \in {"in_progress", "completed"}
            => requests[i].assignee # Empty

\* A request from its creation with a photo to its acceptance, with one
\* more handler invocation than Spec allows: the flows that can touch the
\* assignee cell of one row.
MaxRowCalls == 3

\* get_photo, as CallGetPhoto.
RowCallGetPhoto(t) ==
    /\ pc[t] = "idle"
    /\ calls < MaxRowCalls
    /\ calls' = calls + 1
    /\ \E u \in UUIDs \ drawn :
        /\ drawn' = drawn \cup {u}
        /\ Goto(t, [pc |-> "acquire",
                    op |-> StartCall([NoOp EXCEPT !.flow = "get_photo", !.uuid = u,
                                                  !.status = "creating"],
                                     "create_request_row")], "none")
    /\ UNCHANGED <<lock, requests, users, notified, faults>>
    /\ UNCHANGED <<cvars, hvars>>

\* request_callback_handler, action accept_req, as CallAccept.
RowCallAccept(t) ==
    /\ pc[t] = "idle"
    /\ calls < MaxRowCalls
    /\ \E u \in UUIDs, a \in Actors :
        Goto(t, [pc |-> "acquire",
                 op |-> StartCall([NoOp EXCEPT !.flow = "callback",
                                               !.uuid = u, !.actor = a,
                                               !.atCall = StatusOf(requests, u)],
                                  "accept_request")], "none")
    /\ calls' = calls + 1
    /\ UNCHANGED <<lock, requests, users, notified, drawn, faults>>
    /\ UNCHANGED <<cvars, hvars>>

NextRow ==
    \E t \in Tasks :
        \/ RowCallGetPhoto(t)
        \/ RowCallAccept(t)
        \/ Acquire(t)
        \/ Fault(t)
        \/ Retry(t)
        \/ CreateRequestRow(t)
        \/ UploadPhotoToDrive(t)
        \/ UpdateFind(t)
        \/ UpdateStatus(t)
        \/ UpdatePhoto(t)
        \/ DeleteRequest(t)
        \/ AcceptRead(t)
        \/ AcceptStatus(t)
        \/ AcceptAssignee(t)
        \/ AcceptName(t)
        \/ AcceptTime(t)
        \/ SendNewRequestNotification(t)
        \/ ReplySuccess(t)

\* The sheet starts empty: the row is the one the flow creates.
InitRow ==
    /\ requests = <<>>
    /\ users \in InitialUsers
    /\ InitTasks
    /\ InitUserService
    /\ InitHandlers

SpecRow == InitRow /\ [][NextRow]_vars

\* C30 -- Assignee stability.  Once the assignee id of a request row is
\* written, no step replaces it by a different value: in every step that
\* removes no row, a row with an assignee keeps it.
C30_AssigneeStable ==
    [][Len(requests') >= Len(requests) =>
          \A i \in DOMAIN requests :
              requests[i].assignee # Empty
              => requests'[i].assignee = requests[i].assignee]_vars

(***************************************************************************)
(* The lock around the steps that are not store accesses.                  *)
(***************************************************************************)

\* C31 -- The photo upload runs outside the lock: a flow that is at its
\* upload_photo_to_drive call does not hold the lock.
C31_UploadOutsideLock ==
    \A t \in Tasks : pc[t] = "upload" => lock # t

\* While one flow is at its upload, another caller's accept_request, started
\* after the draft row was written, took the lock and returned.
C31_Witness ==
    \E t1 \in Tasks, t2 \in Tasks :
        /\ pc[t1] = "upload"
        /\ Ended(t2, "accept_request")
        /\ op[t2].atCall = "creating"
        /\ result[t2] = "false"
        /\ lock = NoTask

\* Task t is between two attempts of a retried call: in the backoff of its
\* service method, or inside get_users_worksheet after a failed lookup, whose
\* own retry waits and looks up again before it returns.
Waiting(t) == pc[t] = "sleep" \/ (pc[t] = "ws" /\ op[t].inner > 0)

\* C32 -- The lock is never held during a retry backoff wait: a task that
\* is between two attempts does not hold the lock.
C32_NoLockDuringBackoff ==
    \A t \in Tasks : Waiting(t) => lock # t

\* What task t does by itself once a handler was invoked: it enters the
\* lock when it is free, its remote calls return, its backoff ends.  Handler
\* invocations and faults are left to the environment.
TaskStep(t) ==
    \/ Acquire(t)
    \/ Retry(t)
    \/ CreateRequestRow(t)
    \/ UpdateFind(t)
    \/ UpdateStatus(t)
    \/ UpdatePhoto(t)
    \/ DeleteRequest(t)
    \/ AcceptRead(t)
    \/ AcceptStatus(t)
    \/ AcceptAssignee(t)
    \/ AcceptName(t)
    \/ AcceptTime(t)
    \/ CompleteRead(t)
    \/ CompleteStatus(t)
    \/ CompleteTime(t)
    \/ GetUsersWorksheet(t)
    \/ AddUser(t)
    \/ DeleteUser(t)
    \/ UpdateUserName(t)
    \/ UploadPhotoToDrive(t)
    \/ SendNewRequestNotification(t)
    \/ ReplySuccess(t)

\* The event loop runs every task that can run.
SpecLive == Init /\ [][Next]_vars /\ \A t \in Tasks : WF_vars(TaskStep(t))

\* C33 -- Lock liveness.  A task outside the lock-protected steps of its
\* method (idle, in a backoff, waiting for the lock, or at a step of its
\* handler) does not hold the lock; every task waiting for the lock
\* eventually holds it; every invoked handler eventually ends.
C33_LockLiveness ==
    /\ [](\A t \in Tasks : pc[t] \notin LockedPcs => lock # t)
    /\ \A t \in Tasks : (pc[t] = "acquire") ~> (lock = t)
    /\ \A t \in Tasks : (pc[t] # "idle") ~> (pc[t] = "idle")

\* A task on a retry of its method waits for the lock another task holds.
C33_Witness ==
    \E t1 \in Tasks, t2 \in Tasks :
        /\ pc[t1] = "acquire"
        /\ op[t1].attempt > 1
        /\ lock = t2
        /\ t1 # t2

(***************************************************************************)
(* The /start handler: the role gate looks the caller up through           *)
(* UserService, and the handler renames the User object it was given.      *)
(***************************************************************************)

\* user.first_name or user.username, as Telegram reports it.
TelegramNames == {"User_42", "Renamed"}

\* What get_all_users returns and leaves cached, the refresh succeeding or
\* not: the list returned (ret, with how it was obtained) and the cache, its
\* timestamp and the number of list objects built so far.
GetAllUsersIn(c, st, ob, ok) ==
    IF CacheHit(c, st, now)
    THEN [ret |-> [how |-> "hit", obj |-> c.obj, rows |-> c.rows],
          cache |-> c, stamp |-> st, objs |-> ob]
    ELSE IF ok
    THEN [ret |-> [how |-> "fresh", obj |-> ob + 1, rows |-> users],
          cache |-> [obj |-> ob + 1, rows |-> users],
          stamp |-> now, objs |-> ob + 1]
    ELSE [ret |-> OnFetchFailure(c),
          cache |-> c, stamp |-> st, objs |-> ob]

\* get_all_users on the cache as it is.
GetAllUsers(ok) == GetAllUsersIn(cache, stamp, objs, ok)

\* db_user.name = current_name on the i-th User of list object obj: whoever
\* holds that list object sees the new name.
SetName(holder, obj, i, name) ==
    IF holder.obj = obj /\ obj # 0
    THEN [holder EXCEPT !.rows[i].name = name]
    ELSE holder

\* /start by a user of the directory: the wrapper's get_user_by_id, then the
\* handler up to its first await.  When the name differs it calls
\* user_service.update_user_name and then assigns db_user.name.
Start ==
    /\ gate.n < MaxUpdates
    /\ last.n < MaxReads
    /\ \E id \in UserIds, ok \in BOOLEAN, name \in TelegramNames :
        LET g == GetAllUsers(ok)
            i == FindRow(g.ret.rows, id)
        IN  /\ i # 0
            /\ gate' = Wrapper(gate.n + 1, id, "technician", "message",
                               {"admin", "housekeeper", "technician"})
            /\ objs' = g.objs
            /\ IF g.ret.rows[i].name # name
               THEN LET updated == CoroutineCall
                        c == IF Truthy(updated) THEN ClearCache(g.cache)
                             ELSE g.cache
                    IN  /\ ucall' = [n |-> ucall.n + 1,
                                     name |-> "update_user_name", id |-> id,
                                     ret |-> updated, at |-> g.objs]
                        /\ stamp' = IF Truthy(updated) THEN 0 ELSE g.stamp
                        /\ cache' = SetName(c, g.ret.obj, i, name)
                        /\ last' = SetName([n |-> last.n + 1, how |-> g.ret.how,
                                            obj |-> g.ret.obj,
                                            rows |-> g.ret.rows],
                                           g.ret.obj, i, name)
               ELSE /\ cache' = g.cache
                    /\ stamp' = g.stamp
                    /\ last' = [n |-> last.n + 1, how |-> g.ret.how,
                                obj |-> g.ret.obj, rows |-> g.ret.rows]
                    /\ UNCHANGED ucall
    /\ UNCHANGED <<now, mail>>
    /\ UNCHANGED svars

\* Who sends commands and presses buttons: a user of the directory and a
\* stranger.
Callers == UserIds \cup {7}

\* The gated handlers are registered for commands and callback queries.
HandlerKinds == {"callback", "message"}

\* The lookup finding a user whatever the list holds.
FoundAnyway(rows, id, role) == role

\* get_user_by_id: the User of the list with this telegram_id, known here
\* by its role, or None.
Found(rows, id, role) == IF FindRow(rows, id) # 0 THEN role ELSE "none"

\* An update reaches a handler wrapped by require_role: the wrapper looks
\* the caller up through UserService and lets the handler run or denies.
GatedCall ==
    /\ gate.n < MaxUpdates
    /\ last.n < MaxReads
    /\ \E user \in Callers, ok \in BOOLEAN, role \in Roles,
          kind \in HandlerKinds, roles \in RoleLists :
        LET g == GetAllUsers(ok) IN
        /\ gate' = Wrapper(gate.n + 1, user,
                           Found(g.ret.rows, user, role), kind, roles)
        /\ cache' = g.cache
        /\ stamp' = g.stamp
        /\ objs' = g.objs
        /\ last' = [n |-> last.n + 1, how |-> g.ret.how,
                    obj |-> g.ret.obj, rows |-> g.ret.rows]
    /\ UNCHANGED <<now, ucall, mail>>
    /\ UNCHANGED svars

\* The UserService with its readers, its writers, the gated handlers and
\* the /start handler.
NextStart ==
    \/ GetAllUsersHit
    \/ GetAllUsersFetch
    \/ GetAllUsersFetchFailed
    \/ UserServiceAddUser
    \/ UserServiceDeleteUser
    \/ UserServiceUpdateUserName
    \/ Tick
    \/ Start
    \/ GatedCall

SpecStart == InitCache /\ [][NextStart]_vars

\* C34 -- Snapshots are never edited in place: as long as UserService holds
\* the same list object, the field values of its User objects stay as they
\* were, so two reads of that snapshot see the same values.
C34_SnapshotNotEdited ==
    [][(cache.obj # 0 /\ cache'.obj = cache.obj)
          => cache'.rows = cache.rows]_vars

\* /start renamed the User object it was given: the list that was returned
\* to the wrapper carries the new name, and UserService holds no snapshot.
C34_Witness ==
    /\ gate.invoked
    /\ ucall.name = "update_user_name"
    /\ last.obj # 0
    /\ \E i \in DOMAIN last.rows : last.rows[i].name = "Renamed"
    /\ cache = NoSnapshot

\* C35 -- No pre-mutation snapshot after a mutation.  Once a mutation made
\* through UserService has returned (add_user, or delete_user and
\* update_user_name with a true result), every get_all_users call returns a
\* list built after it or the empty list, and it returns the empty list
\* when its refresh fails and nothing was fetched since the mutation.
C35_NoSnapshotFromBefore ==
    [][( /\ last'.n # last.n
         /\ ucall.n > 0
         /\ ucall.name = "add_user" \/ Truthy(ucall.ret) )
       => /\ last'.obj = 0 \/ last'.obj > ucall.at
          /\ (objs' = objs /\ objs = ucall.at) => last'.how = "empty"]_vars

\* A snapshot was fetched, a mutation went through UserService, and the
\* next call, whose refresh failed, returned the empty list.
C35_Witness ==
    /\ ucall.n = 1 /\ ucall.at = 1
    /\ last.n = 2 /\ last.how = "empty"
    /\ objs = 1

\* C36 -- A failed refresh leaves the cache untouched.  A get_all_users
\* call whose refresh failed leaves the snapshot and its timestamp as they
\* were, and from then to the next call the cache cannot answer: that call
\* attempts the fetch again.
C36_FailedRefreshKeepsCache ==
    /\ [][(last'.n # last.n /\ last'.how \in {"stale", "empty"})
             => (cache' = cache /\ stamp' = stamp)]_vars
    /\ [](last.how \in {"stale", "empty"} => ~CacheHit(cache, stamp, now))

\* The first call failed with nothing cached and the second, made at the
\* same time, fetched the first snapshot.
C36_Witness ==
    /\ last.n = 2 /\ last.how = "fresh" /\ last.obj = 1
    /\ ucall.n = 0
    /\ now = 0

\* C37 -- Revocation.  While the last mutation made through UserService is
\* a delete_user of a user that returned a true value, no handler behind
\* require_role is invoked for that user.
C37_Revocation ==
    [][( /\ gate'.n # gate.n
         /\ ucall.name = "delete_user" /\ Truthy(ucall.ret)
         /\ gate'.user = ucall.id )
       => ~gate'.invoked]_vars

\* C38 -- Fail-closed authorization.  When no snapshot is cached and the
\* fetch fails, the wrapper's lookup finds nobody and the handler is not
\* invoked, whoever calls and whatever the sheet holds.
C38_FailClosed ==
    [][( /\ gate'.n # gate.n
         /\ gate'.user # 0
         /\ cache = NoSnapshot
         /\ objs' = objs )
       => /\ gate'.found = "none"
          /\ ~gate'.invoked
          /\ last'.how = "empty"]_vars

\* A user who has a row in the sheet called while nothing was cached and
\* the fetch failed, and was denied.
C38_Witness ==
    /\ gate.n > 0 /\ gate.user = 42 /\ gate.looked
    /\ \E i \in DOMAIN users : users[i].id = 42
    /\ last.how = "empty"
    /\ gate.found = "none" /\ ~gate.invoked
    /\ gate.denied # "none"

(***************************************************************************)
(* The /adduser command.                                                   *)
(***************************************************************************)

\* The users sheet after self.google_api.add_user(...) was called without
\* await: the coroutine object is created and dropped, append_row never runs.
AfterUnawaitedAddUser(rows, id) == rows

\* The users sheet after an awaited add_user.
AfterAwaitedAddUser(rows, id) == Append(rows, [id |-> id, name |-> "User_42"])

\* /adduser <target> sent by admin, from the wrapper to the reply, no await
\* in between: the wrapper's lookup of the admin, the existence check
\* get_user_by_id(target), then user_service.add_user.  checked: the
\* existence check is made; awaited: the append runs.
AddUserCommandWith(checked, awaited) ==
    /\ gate.n < MaxUpdates
    /\ \E admin \in Callers, target \in Callers, role \in Roles,
          ok1 \in BOOLEAN, ok2 \in BOOLEAN :
        LET g1 == GetAllUsers(ok1)
            w  == Wrapper(gate.n + 1, admin, Found(g1.ret.rows, admin, role),
                          "message", {"admin"})
            g2 == GetAllUsersIn(g1.cache, g1.stamp, g1.objs, ok2)
        IN  /\ gate' = w
            /\ IF ~w.invoked
               THEN /\ cache' = g1.cache
                    /\ stamp' = g1.stamp
                    /\ objs' = g1.objs
                    /\ last' = [n |-> last.n + 1, how |-> g1.ret.how,
                                obj |-> g1.ret.obj, rows |-> g1.ret.rows]
                    /\ UNCHANGED <<ucall, users>>
               ELSE /\ objs' = g2.objs
                    /\ last' = [n |-> last.n + 2, how |-> g2.ret.how,
                                obj |-> g2.ret.obj, rows |-> g2.ret.rows]
                    /\ IF checked /\ FindRow(g2.ret.rows, target) # 0
                       THEN /\ cache' = g2.cache
                            /\ stamp' = g2.stamp
                            /\ UNCHANGED <<ucall, users>>
                       ELSE /\ ucall' = [n |-> ucall.n + 1, name |-> "add_user",
                                         id |-> target, ret |-> "none",
                                         at |-> g2.objs]
                            /\ cache' = ClearCache(g2.cache)
                            /\ stamp' = 0
                            /\ users' = IF awaited
                                        THEN AfterAwaitedAddUser(users, target)
                                        ELSE AfterUnawaitedAddUser(users, target)
    /\ UNCHANGED <<lock, requests, pc, op, result, notified, drawn, calls,
                   faults, now, mail>>

\* /adduser appending without the existence check.
AddUserCommandUnchecked == AddUserCommandWith(FALSE, TRUE)

\* /adduser as the handler has it.
AddUserCommand == AddUserCommandWith(TRUE, FALSE)

\* The UserService, the gated handlers and the /adduser command.
NextAdmin ==
    \/ GetAllUsersHit
    \/ GetAllUsersFetch
    \/ GetAllUsersFetchFailed
    \/ UserServiceAddUser
    \/ UserServiceDeleteUser
    \/ UserServiceUpdateUserName
    \/ Tick
    \/ Start
    \/ GatedCall
    \/ AddUserCommand

SpecAdmin == InitCache /\ [][NextAdmin]_vars

====
